---- MODULE Spec2Model ----
(***************************************************************************)
(* Model of the file grid of quick-file-context-upload: the in-memory      *)
(* file service (submittedFiles, generateMockFiles, getFilteredFiles), the *)
(* useInfiniteScroll hook (loadMore / reset, the isFetchingRef guard and    *)
(* its delayed release) and the FileGrid effects that drive the hook.       *)
(*                                                                         *)
(* Strings are sequences of one-character strings, so that toLowerCase,    *)
(* trim and includes are computed and not assumed.  An optional value      *)
(* (undefined in the source) is a sequence of length 0 or 1.               *)
(***************************************************************************)
EXTENDS Integers, Sequences, FiniteSets, TLC

VARIABLES
    submittedFiles,     \* fileService: the module-level store (most recent first)
    nextId,             \* the next fresh id crypto.randomUUID() hands out
    items,              \* useInfiniteScroll: accumulated items (React state)
    page,               \* useInfiniteScroll: page cursor (React state)
    isLoading,          \* useInfiniteScroll: loading flag (React state)
    hasMore,            \* useInfiniteScroll: exhaustion flag (React state)
    error,              \* useInfiniteScroll: last failure, <<>> for null
    isFetchingRef,      \* useInfiniteScroll: the in-flight guard (a ref)
    fetches,            \* the fetchFn calls that are started and not settled
    fetchCount,         \* how many fetchFn calls were started so far
    timers,             \* pending setTimeout(..., 100) guard releases
    closure,            \* [page, len]: what the last committed loadMore captured
    mounted,            \* FileGrid: the mount effects have run
    searchQuery,        \* FileGrid: prop searchQuery
    selectedFileTypes,  \* FileGrid: state selectedFileTypes
    call,               \* the last service call looked at: its arguments, <<>> if none
    result,             \* the last service call looked at: what it returned
    calls,              \* how many service calls and handler calls were made so far
    indexMounted,       \* Index: the mount effect has run
    indexSubmittedFiles,\* Index: state submittedFiles (the page's copy of the list)
    activeFile,         \* Index: state activeFile, <<>> for null
    isAnalyzing,        \* Index: state isAnalyzing
    diagnosticResults,  \* Index: state diagnosticResults, <<>> for null
    chatMessages,       \* Index: state chatMessages
    toasts,             \* useToast: the titles of the toasts shown, oldest first
    deletes,            \* Index: handleDeleteFile calls waiting for deleteFile
    analyses,           \* Index: handleSendMessage calls waiting for analyzeFile
    selectedFile,       \* FileUploader: state selectedFile, <<>> for null
    uploaderContext,    \* FileUploader: state context
    picked,             \* FileUploader: the files given to handleFileChange so far
    onFileSelectCalls,  \* FileUploader: the arguments onFileSelect was called with
    onSubmitCalls,      \* FileUploader: the arguments onSubmit was called with
    uploaderProps,      \* FileUploader: props maxSizeMB, acceptedFileTypes, isDemo
    committed,          \* FileGrid: hasMore and isLoading as the last commit saw them
    loaderRef,          \* useInfiniteScroll: loaderRef.current is an element (the sentinel)
    observing,          \* useInfiniteScroll: an IntersectionObserver watches the sentinel
    listener,           \* FileGrid: what the attached 'loadmore' handler captured, <<>> if none
    debounce,           \* useInfiniteScroll: pending setTimeout(dispatch, loadMoreDelay)
    submits             \* Index: handleFileSubmit calls waiting for submitFile

indexVars == <<indexMounted, indexSubmittedFiles, activeFile, isAnalyzing, diagnosticResults,
               chatMessages, toasts, deletes, analyses>>

uploaderVars == <<selectedFile, uploaderContext, picked, onFileSelectCalls, onSubmitCalls,
                  uploaderProps>>

appVars == <<calls, indexVars, uploaderVars>>

\* the sentinel of the infinite scroll and what is attached to it
scrollVars == <<committed, loaderRef, observing, listener, debounce>>

vars == <<submittedFiles, nextId, items, page, isLoading, hasMore, error,
          isFetchingRef, fetches, fetchCount, timers, closure, mounted,
          searchQuery, selectedFileTypes, call, result, appVars, scrollVars, submits>>

hookVars == <<items, page, isLoading, hasMore, error, isFetchingRef, fetches,
              fetchCount, timers, closure>>

\* FileGrid's own state, and with it what the page keeps around the
\* coordinator: the sentinel and the submissions under way
gridVars == <<mounted, searchQuery, selectedFileTypes, scrollVars, submits>>

callVars == <<call, result>>

-----------------------------------------------------------------------------
(* Bounds of the model.                                                    *)

\* generateMockFiles(1000) is scaled down to this many records.
MockCount == 3
\* ITEMS_PER_PAGE (9 in the source) is scaled down to this many records.
PageSize == 2
\* fetchFn calls started in one behaviour.
MaxFetches == 3
\* fetchFn calls FileGrid's effects start in one behaviour.
MaxGridFetches == 2
\* fetchFn calls started in one behaviour of awaited calls.
MaxSeqFetches == 4
\* longest store the awaited calls page through.
MaxSeqLen == 5
\* largest limit and largest page number of a direct service call.
MaxLimit == 2
MaxPageArg == 3
\* longest store a direct service call is tried on.
MaxStoreLen == 2
\* direct service calls made in one behaviour.
MaxCalls == 4
\* Index handler calls (and clicks on a file) made in one behaviour.
MaxHandlerCalls == 3
\* FileUploader events in one behaviour.
MaxUploaderEvents == 3

-----------------------------------------------------------------------------
(* Strings.                                                                *)

None == <<>>

Some(x) == <<x>>

\* String.prototype.toLowerCase on the model's alphabet.
LowerChar(c) ==
    CASE c = "K" -> "k"
      [] c = "A" -> "a"
      [] OTHER -> c

ToLowerCase(s) == [i \in 1..Len(s) |-> LowerChar(s[i])]

\* String.prototype.includes: q occurs in s as a contiguous substring.
Includes(s, q) ==
    \E i \in 0..(Len(s) - Len(q)) : SubSeq(s, i + 1, i + Len(q)) = q

RECURSIVE TrimStart(_)
TrimStart(s) ==
    IF s # <<>> /\ Head(s) = " " THEN TrimStart(Tail(s)) ELSE s

RECURSIVE TrimEnd(_)
TrimEnd(s) ==
    IF s # <<>> /\ s[Len(s)] = " " THEN TrimEnd(SubSeq(s, 1, Len(s) - 1)) ELSE s

\* String.prototype.trim
Trim(s) == TrimEnd(TrimStart(s))

\* Number to decimal string, as a template literal prints it.
DigitChar(d) == <<"0", "1", "2", "3", "4", "5", "6", "7", "8", "9">>[d + 1]

RECURSIVE Digits(_)
Digits(n) ==
    IF n < 10 THEN <<DigitChar(n)>> ELSE Digits(n \div 10) \o <<DigitChar(n % 10)>>

\* Array.prototype.slice(start, end), with its clamping of both indices.
RelIndex(i, len) ==
    IF i < 0 THEN (IF len + i < 0 THEN 0 ELSE len + i)
    ELSE (IF i > len THEN len ELSE i)

Slice(s, start, end) ==
    SubSeq(s, RelIndex(start, Len(s)) + 1, RelIndex(end, Len(s)))

\* Array.prototype.includes
ArrayIncludes(arr, x) == \E i \in 1..Len(arr) : arr[i] = x

-----------------------------------------------------------------------------
(* fileService: the records and the mock generator.                        *)

\* A FileItem, with the fields the service reads.
FileItem(id, name, type, context, lastModified) ==
    [id |-> id, name |-> name, type |-> type, context |-> context,
     lastModified |-> lastModified]

\* generateMockFiles: the palettes (5 types, 10 contexts and 20 prefixes in the
\* source, fewer and shorter here).
fileTypes == <<"application/gzip", "application/json">>

fileExtensions == << <<".", "t">>, <<".", "j">> >>

fileContexts == << <<"K", "l">>, <<"A", "p">>, <<"d", "b">> >>

filePrefixes == << <<"d">>, <<"l">> >>

\* The days Math.random() can pick for a mock file's date.
MockDates == {1, 2}

\* { ...file, status }: a FileItem with its upload status
WithStatus(file, status) ==
    [id |-> file.id, name |-> file.name, type |-> file.type, context |-> file.context,
     lastModified |-> file.lastModified, status |-> status]

\* One mock file: the body of generateMockFiles' loop for index i (0-based).
\* The id is a fresh one, the date is the random draw, the status is
\* complete.
MockFile(i, id, date) ==
    LET typeIndex == i % Len(fileTypes)
        contextIndex == i % Len(fileContexts)
        prefixIndex == (i \div 5) % Len(filePrefixes)
    IN  WithStatus(FileItem(id,
                            filePrefixes[prefixIndex + 1] \o <<"-">> \o Digits(i + 1)
                               \o fileExtensions[typeIndex + 1],
                            fileTypes[typeIndex + 1],
                            fileContexts[contextIndex + 1] \o <<" ">> \o Digits(date),
                            date),
                   "complete")

\* generateMockFiles(count): ids firstId, firstId+1, ... stand for the UUIDs.
GenerateMockFiles(count, firstId, dates) ==
    [k \in 1..count |-> MockFile(k - 1, firstId + k - 1, dates[k])]

\* The stores the seeding branch of a query can leave: the store itself when
\* it is not empty, a freshly generated one otherwise.
SeedIfEmpty(files, firstId) ==
    IF Len(files) = 0
    THEN {GenerateMockFiles(MockCount, firstId, d) : d \in [1..MockCount -> MockDates]}
    ELSE {files}

\* The ids a seeding consumed.
IdsAfterSeed(files, firstId) ==
    IF Len(files) = 0 THEN firstId + MockCount ELSE firstId

-----------------------------------------------------------------------------
(* fileService.getFilteredFiles, after the seeding branch.                 *)

\* filters: [query, fileTypes, dateRange], each optional;
\* dateRange, when given, is [from, to], each optional.
Filters(query, types, dateRange) ==
    [query |-> query, fileTypes |-> types, dateRange |-> dateRange]

Pagination(p, limit) == [page |-> p, limit |-> limit]

\* QueryTest with the toLowerCase() of the file name forgotten
QueryTestCaseSensitive(file, filters) ==
    LET query == ToLowerCase(filters.query[1])
    IN  \/ Includes(file.name, query)
        \/ (file.context # <<>> /\ Includes(ToLowerCase(file.context), query))

\* the text search predicate of one file
QueryTest(file, filters) ==
    LET query == ToLowerCase(filters.query[1])
    IN  \/ Includes(ToLowerCase(file.name), query)
        \/ (file.context # <<>> /\ Includes(ToLowerCase(file.context), query))

\* the file type predicate of one file
TypeTest(file, filters) == ArrayIncludes(filters.fileTypes[1], file.type)

ApplyQuery(files, filters) ==
    IF filters.query # None /\ filters.query[1] # <<>> /\ Trim(filters.query[1]) # <<>>
    THEN LET T(f) == QueryTest(f, filters) IN SelectSeq(files, T)
    ELSE files

ApplyTypes(files, filters) ==
    IF filters.fileTypes # None /\ Len(filters.fileTypes[1]) > 0
    THEN LET T(f) == TypeTest(f, filters) IN SelectSeq(files, T)
    ELSE files

ApplyDateRange(files, filters) ==
    IF filters.dateRange = None THEN files
    ELSE LET range == filters.dateRange[1]
             From(f) == f.lastModified >= range.from[1]
             To(f) == f.lastModified <= range.to[1]
             afterFrom == IF range.from # None THEN SelectSeq(files, From) ELSE files
         IN  IF range.to # None THEN SelectSeq(afterFrom, To) ELSE afterFrom

\* the filtered list, before pagination
Filtered(files, filters) ==
    ApplyDateRange(ApplyTypes(ApplyQuery(files, filters), filters), filters)

\* Paginate with a window one record too long
PaginateOneMore(filtered, pagination) ==
    LET startIdx == (pagination.page - 1) * pagination.limit
        endIdx == startIdx + pagination.limit + 1
    IN  Slice(filtered, startIdx, endIdx)

\* the window of one page
Paginate(filtered, pagination) ==
    LET startIdx == (pagination.page - 1) * pagination.limit
        endIdx == startIdx + pagination.limit
    IN  Slice(filtered, startIdx, endIdx)

\* getFilteredFiles with total taken after the slice
GetFilteredFilesTotalOfPage(files, filters, pagination) ==
    LET filtered == Filtered(files, filters)
    IN  [files |-> Paginate(filtered, pagination),
         total |-> Len(Paginate(filtered, pagination))]

GetFilteredFiles(files, filters, pagination) ==
    LET filtered == Filtered(files, filters)
    IN  [files |-> Paginate(filtered, pagination), total |-> Len(filtered)]

-----------------------------------------------------------------------------
(* useInfiniteScroll.                                                      *)

\* the initialPage option (its default, and what FileGrid passes)
initialPage == 1

\* What a loadMore created by a render has captured: the useCallback
\* dependencies page and items.length of that render.
Captured(p, its) == [page |-> p, len |-> Len(its)]

\* How the promise of a fetch function settles: with a page of the store,
\* with a value whose data is no array, or rejected.
Outcomes == {"data", "malformed", "reject"}

\* One started fetchFn call: the page it was called with and the items.length
\* its loadMore had captured, the filters its fetch function closed over,
\* whether the fetch function is FileGrid's wrapper around getFilteredFiles,
\* and how the fetch function passed in is going to settle.
\* stale records that reset() ran after the call started (history only).
Fetch(id, cl, filters, wrapped, outcome) ==
    [id |-> id, page |-> cl.page, len |-> cl.len, filters |-> filters,
     wrapped |-> wrapped, outcome |-> outcome, stale |-> FALSE]

\* the filters FileGrid's fetch functions pass to getFilteredFiles
GridFilters(q, types) ==
    Filters(Some(q), IF Len(types) > 0 THEN Some(types) ELSE None, None)

\* loadMore, up to its await: dropped when the guard is set, otherwise the
\* guard and isLoading are set, error is cleared and fetchFn(page) is called.
LoadMoreStart(cl, filters, wrapped, outcome) ==
    IF isFetchingRef
    THEN UNCHANGED <<isFetchingRef, isLoading, error, fetches, fetchCount>>
    ELSE /\ isFetchingRef' = TRUE
         /\ isLoading' = TRUE
         /\ error' = None
         /\ fetches' = fetches \cup {Fetch(fetchCount + 1, cl, filters, wrapped, outcome)}
         /\ fetchCount' = fetchCount + 1

\* loadMore's finally block: isLoading is cleared, the guard is released by a
\* timer 100 ms later.
Finally ==
    /\ isLoading' = FALSE
    /\ timers' = timers + 1
    /\ UNCHANGED isFetchingRef

\* MergeResult that puts a new page in front of the accumulated items
MergeResultPrepend(f, data, totalCount) ==
    LET loadedItems == (IF f.page = initialPage THEN 0 ELSE f.len) + Len(data)
        hasMoreItems == loadedItems < totalCount
    IN  /\ items' = IF f.page = initialPage THEN data ELSE data \o items
        /\ hasMore' = hasMoreItems
        /\ page' = IF hasMoreItems THEN page + 1 ELSE page

\* loadMore after its await, fetchFn resolved with { data, totalCount }.
MergeResult(f, data, totalCount) ==
    LET loadedItems == (IF f.page = initialPage THEN 0 ELSE f.len) + Len(data)
        hasMoreItems == loadedItems < totalCount
    IN  /\ items' = IF f.page = initialPage THEN data ELSE items \o data
        /\ hasMore' = hasMoreItems
        /\ page' = IF hasMoreItems THEN page + 1 ELSE page

\* A call of loadMore(fetchFn) through the last rendered loadMore, with a
\* fetch function that queries the store with the grid's current filters.
LoadMoreCall ==
    /\ \E outcome \in Outcomes :
          LoadMoreStart(closure, GridFilters(searchQuery, selectedFileTypes), FALSE, outcome)
    /\ UNCHANGED <<items, page, hasMore, timers, closure>>
    /\ UNCHANGED <<submittedFiles, nextId, gridVars, callVars, appVars>>

\* loadMore called at any time
LoadMore ==
    /\ fetchCount < MaxFetches
    /\ LoadMoreCall

\* FetchResolves that throws away the result of a fetch started before reset()
FetchResolvesDropsStale ==
    \E f \in fetches :
      \E files \in SeedIfEmpty(submittedFiles, nextId) :
        LET r == GetFilteredFiles(files, f.filters, Pagination(f.page, PageSize))
        IN  /\ f.outcome = "data"
            /\ submittedFiles' = files
            /\ nextId' = IdsAfterSeed(submittedFiles, nextId)
            /\ IF f.stale THEN UNCHANGED <<items, hasMore, page>>
               ELSE MergeResult(f, r.files, r.total)
            /\ Finally
            /\ fetches' = fetches \ {f}
            /\ UNCHANGED <<error, fetchCount, closure, gridVars, callVars, appVars>>

\* fetchFn resolves with a page of the store: getFilteredFiles runs (seeding
\* the store when it is empty) and loadMore merges what it returned.
FetchResolves ==
    \E f \in fetches :
      \E files \in SeedIfEmpty(submittedFiles, nextId) :
        LET r == GetFilteredFiles(files, f.filters, Pagination(f.page, PageSize))
        IN  /\ f.outcome = "data"
            /\ submittedFiles' = files
            /\ nextId' = IdsAfterSeed(submittedFiles, nextId)
            /\ MergeResult(f, r.files, r.total)
            /\ Finally
            /\ fetches' = fetches \ {f}
            /\ UNCHANGED <<error, fetchCount, closure, gridVars, callVars, appVars>>

\* FetchRejects that takes a failure for the end of the list
FetchRejectsExhausted ==
    \E f \in fetches :
        /\ f.outcome = "reject"
        /\ error' = Some("Error")
        /\ hasMore' = FALSE
        /\ Finally
        /\ fetches' = fetches \ {f}
        /\ UNCHANGED <<items, page, fetchCount, closure>>
        /\ UNCHANGED <<submittedFiles, nextId, gridVars, callVars, appVars>>

\* fetchFn rejects: the catch block records the error.
FetchRejects ==
    \E f \in fetches :
        /\ f.outcome = "reject"
        /\ error' = Some("Error")
        /\ Finally
        /\ fetches' = fetches \ {f}
        /\ UNCHANGED <<items, page, hasMore, fetchCount, closure>>
        /\ UNCHANGED <<submittedFiles, nextId, gridVars, callVars, appVars>>

\* FetchMalformed that takes data that is no array for the end of the list
FetchMalformedAsLastPage ==
    \E f \in fetches :
        /\ f.outcome = "malformed"
        /\ hasMore' = FALSE
        /\ Finally
        /\ fetches' = fetches \ {f}
        /\ UNCHANGED <<items, page, error, fetchCount, closure>>
        /\ UNCHANGED <<submittedFiles, nextId, gridVars, callVars, appVars>>

\* fetchFn resolves with a value whose data is no array: only the warning.
FetchMalformed ==
    \E f \in fetches :
        /\ f.outcome = "malformed"
        /\ Finally
        /\ fetches' = fetches \ {f}
        /\ UNCHANGED <<items, page, hasMore, error, fetchCount, closure>>
        /\ UNCHANGED <<submittedFiles, nextId, gridVars, callVars, appVars>>

\* the timer of a finally block fires
ReleaseGuard ==
    /\ timers > 0
    /\ timers' = timers - 1
    /\ isFetchingRef' = FALSE
    /\ UNCHANGED <<items, page, isLoading, hasMore, error, fetches, fetchCount, closure>>
    /\ UNCHANGED <<submittedFiles, nextId, gridVars, callVars, appVars>>

\* reset() without the write to isFetchingRef
ResetStateKeepsGuard ==
    /\ items' = <<>>
    /\ page' = initialPage
    /\ hasMore' = TRUE
    /\ error' = None
    /\ UNCHANGED isFetchingRef

\* the state updates and the ref write of reset()
ResetState ==
    /\ items' = <<>>
    /\ page' = initialPage
    /\ hasMore' = TRUE
    /\ error' = None
    /\ isFetchingRef' = FALSE

\* A call of reset().
Reset ==
    /\ ResetState
    /\ fetches' = {[f EXCEPT !.stale = TRUE] : f \in fetches}
    /\ UNCHANGED <<isLoading, fetchCount, timers, closure>>
    /\ UNCHANGED <<submittedFiles, nextId, gridVars, callVars, appVars>>

\* React renders the component again: a new loadMore captures the state.
Render ==
    /\ closure # Captured(page, items)
    /\ closure' = Captured(page, items)
    /\ UNCHANGED <<items, page, isLoading, hasMore, error, isFetchingRef, fetches,
                   fetchCount, timers>>
    /\ UNCHANGED <<submittedFiles, nextId, gridVars, callVars, appVars>>

-----------------------------------------------------------------------------
(* FileGrid: the two effects that depend on [searchQuery, selectedFileTypes]. *)

\* the search texts the grid is given
Queries == {<<>>, <<"k">>, <<"b">>}

\* The reset effect and the load effect, run after the render that saw the
\* filters q and types: reset(), then loadMore(fetchFiles) through the
\* loadMore of that same render, which captured the state as it was before
\* reset() queued its updates.  reset() has just cleared the guard, so this
\* loadMore always starts its fetch.
GridEffects(q, types) ==
    LET rendered == Captured(page, items)
    IN  /\ fetchCount < MaxGridFetches
        /\ closure' = rendered
        /\ items' = <<>>
        /\ page' = initialPage
        /\ hasMore' = TRUE
        /\ error' = None
        /\ isFetchingRef' = TRUE
        /\ isLoading' = TRUE
        /\ fetches' = {[f EXCEPT !.stale = TRUE] : f \in fetches}
                        \cup {Fetch(fetchCount + 1, rendered, GridFilters(q, types), TRUE, "data")}
        /\ fetchCount' = fetchCount + 1
        /\ UNCHANGED <<timers, submittedFiles, nextId, callVars, appVars>>

\* FileGrid mounts: both effects run for the first time.
Mount ==
    /\ ~mounted
    /\ mounted' = TRUE
    /\ GridEffects(searchQuery, selectedFileTypes)
    /\ UNCHANGED <<searchQuery, selectedFileTypes, scrollVars, submits>>

\* The parent passes another searchQuery.
QueryChange ==
    \E q \in Queries \ {searchQuery} :
        /\ mounted
        /\ searchQuery' = q
        /\ GridEffects(q, selectedFileTypes)
        /\ UNCHANGED <<mounted, selectedFileTypes, scrollVars, submits>>

\* Array.prototype.filter(t => t !== type)
Without(arr, x) == LET T(t) == t # x IN SelectSeq(arr, T)

\* toggleFileType(type), and the effects its state update triggers
ToggleFileType ==
    \E i \in 1..Len(fileTypes) :
        LET type == fileTypes[i]
            toggled == IF ArrayIncludes(selectedFileTypes, type)
                       THEN Without(selectedFileTypes, type)
                       ELSE Append(selectedFileTypes, type)
        IN  /\ mounted
            /\ selectedFileTypes' = toggled
            /\ GridEffects(searchQuery, toggled)
            /\ UNCHANGED <<mounted, searchQuery, scrollVars, submits>>

\* Index and FileUploader before anything happened: the useState initial
\* values, and the props ChatInput passes to FileUploader.
InitApp ==
    /\ calls = 0
    /\ indexMounted = FALSE
    /\ indexSubmittedFiles = <<>>
    /\ activeFile = None
    /\ isAnalyzing = FALSE
    /\ diagnosticResults = None
    /\ chatMessages = <<>>
    /\ toasts = <<>>
    /\ deletes = {}
    /\ analyses = {}
    /\ selectedFile = None
    /\ uploaderContext = <<>>
    /\ picked = <<>>
    /\ onFileSelectCalls = <<>>
    /\ onSubmitCalls = <<>>
    /\ uploaderProps = [maxSizeMB |-> 20, acceptedFileTypes |-> <<"*/*">>, isDemo |-> FALSE]
    /\ committed = [hasMore |-> TRUE, isLoading |-> FALSE]
    /\ loaderRef = FALSE
    /\ observing = FALSE
    /\ listener = None
    /\ debounce = 0
    /\ submits = {}

-----------------------------------------------------------------------------
(* The coordinator with any caller of loadMore and reset (Spec), and the    *)
(* coordinator as FileGrid drives it (SpecGrid).                            *)

Init ==
    /\ submittedFiles = <<>>
    /\ nextId = 1
    /\ items = <<>>
    /\ page = initialPage
    /\ isLoading = FALSE
    /\ hasMore = TRUE
    /\ error = None
    /\ isFetchingRef = FALSE
    /\ fetches = {}
    /\ fetchCount = 0
    /\ timers = 0
    /\ closure = Captured(initialPage, <<>>)
    /\ mounted = FALSE
    /\ searchQuery = <<>>
    /\ selectedFileTypes = <<>>
    /\ call = None
    /\ result = None
    /\ InitApp

Next ==
    \/ LoadMore
    \/ FetchResolves
    \/ FetchRejects
    \/ FetchMalformed
    \/ ReleaseGuard
    \/ Reset
    \/ Render

Spec == Init /\ [][Next]_vars

NextGrid ==
    \/ Mount
    \/ QueryChange
    \/ ToggleFileType
    \/ FetchResolves
    \/ ReleaseGuard
    \/ Render

SpecGrid == Init /\ [][NextGrid]_vars

-----------------------------------------------------------------------------
(* Direct calls of getFilteredFiles, on stores that submitFile can build.  *)

\* what a submitted file can look like: name, type, context, lastModified
SubmittableSeq ==
    << [name |-> <<"K", "a">>, type |-> "application/gzip", context |-> <<>>,
        lastModified |-> 1],
       [name |-> <<"b">>, type |-> "application/json", context |-> <<"a", " ", "K">>,
        lastModified |-> 2],
       [name |-> <<"a", "k">>, type |-> "text/plain", context |-> <<"b">>,
        lastModified |-> 1] >>

Submittable == {SubmittableSeq[i] : i \in 1..Len(SubmittableSeq)}

\* the stores of n submitted files, with the ids 1..n
StoresOfLen(n) ==
    { [i \in 1..n |-> FileItem(i, c[i].name, c[i].type, c[i].context, c[i].lastModified)] :
        c \in [1..n -> Submittable] }

Stores == UNION {StoresOfLen(n) : n \in 0..MaxStoreLen}

QueryArgs ==
    {None, Some(<<>>), Some(<<" ">>), Some(<<"k">>), Some(<<"K", "A">>), Some(<<" ", "k">>)}

TypeArgs ==
    {None, Some(<<>>), Some(<<"application/gzip">>),
     Some(<<"application/json", "text/plain">>)}

DateRange(from, to) == [from |-> from, to |-> to]

DateRangeArgs ==
    {None, Some(DateRange(None, None)), Some(DateRange(Some(2), None)),
     Some(DateRange(None, Some(1))), Some(DateRange(Some(1), Some(1)))}

FilterArgs ==
    {Filters(q, t, d) : q \in QueryArgs, t \in TypeArgs, d \in DateRangeArgs}

PageArgs == (-1)..MaxPageArg

LimitArgs == 1..MaxLimit

\* One call getFilteredFiles(filters, pagination): the seeding branch, then
\* the filters and the slice.
GetFilteredFilesCall(filters, pagination) ==
    \E files \in SeedIfEmpty(submittedFiles, nextId) :
        /\ submittedFiles' = files
        /\ nextId' = IdsAfterSeed(submittedFiles, nextId)
        /\ call' = Some([filters |-> filters, pagination |-> pagination])
        /\ result' = Some(GetFilteredFiles(files, filters, pagination))
        /\ UNCHANGED <<hookVars, gridVars, appVars>>

\* the first call, with any filters and any page
FirstQuery ==
    /\ call = None
    /\ \E filters \in FilterArgs, p \in PageArgs, limit \in LimitArgs :
          GetFilteredFilesCall(filters, Pagination(p, limit))

\* a further call with the same filters and limit, for another page
OtherPage ==
    /\ call # None
    /\ \E p \in PageArgs \ {call[1].pagination.page} :
          GetFilteredFilesCall(call[1].filters, Pagination(p, call[1].pagination.limit))

InitQuery ==
    /\ submittedFiles \in Stores
    /\ nextId = Len(submittedFiles) + 1
    /\ items = <<>>
    /\ page = initialPage
    /\ isLoading = FALSE
    /\ hasMore = TRUE
    /\ error = None
    /\ isFetchingRef = FALSE
    /\ fetches = {}
    /\ fetchCount = 0
    /\ timers = 0
    /\ closure = Captured(initialPage, <<>>)
    /\ mounted = FALSE
    /\ searchQuery = <<>>
    /\ selectedFileTypes = <<>>
    /\ call = None
    /\ result = None
    /\ InitApp

NextQuery ==
    \/ FirstQuery
    \/ OtherPage

SpecQuery == InitQuery /\ [][NextQuery]_vars

-----------------------------------------------------------------------------
(* Properties of getFilteredFiles (checked under SpecQuery).               *)

UpperChar(c) ==
    CASE c = "k" -> "K"
      [] c = "a" -> "A"
      [] OTHER -> c

\* q occurs in s when letter case is ignored
ContainsIgnoringCase(s, q) ==
    \E i \in 0..(Len(s) - Len(q)) :
        \A k \in 1..Len(q) : UpperChar(s[i + k]) = UpperChar(q[k])

IsBlank(s) == \A i \in 1..Len(s) : s[i] = " "

MatchesText(file, q) ==
    ContainsIgnoringCase(file.name, q) \/ ContainsIgnoringCase(file.context, q)

MatchesTypes(file, filters) ==
    (filters.fileTypes # None /\ filters.fileTypes[1] # <<>>)
        => file.type \in {filters.fileTypes[1][i] : i \in 1..Len(filters.fileTypes[1])}

MatchesDates(file, filters) ==
    filters.dateRange # None =>
        /\ filters.dateRange[1].from # None => file.lastModified >= filters.dateRange[1].from[1]
        /\ filters.dateRange[1].to # None => file.lastModified <= filters.dateRange[1].to[1]

\* a record satisfies every active filter, the text filter being active for
\* every non-empty query
SatisfiesNonEmpty(file, filters) ==
    /\ (filters.query # None /\ filters.query[1] # <<>>) => MatchesText(file, filters.query[1])
    /\ MatchesTypes(file, filters)
    /\ MatchesDates(file, filters)

\* the same, the text filter being active for every query that is not blank
SatisfiesNonBlank(file, filters) ==
    /\ (filters.query # None /\ ~IsBlank(filters.query[1])) => MatchesText(file, filters.query[1])
    /\ MatchesTypes(file, filters)
    /\ MatchesDates(file, filters)

\* the records of the store that satisfy the filters of the last call, in
\* store order
MatchingNonEmpty ==
    LET T(f) == SatisfiesNonEmpty(f, call[1].filters) IN SelectSeq(submittedFiles, T)

MatchingNonBlank ==
    LET T(f) == SatisfiesNonBlank(f, call[1].filters) IN SelectSeq(submittedFiles, T)

\* the records number first+1 .. first+limit of all, as far as they exist
PageOf(all, pagination) ==
    LET first == (pagination.page - 1) * pagination.limit
        n == IF Len(all) - first < 0 THEN 0
             ELSE IF Len(all) - first < pagination.limit THEN Len(all) - first
             ELSE pagination.limit
    IN  [k \in 1..n |-> all[first + k]]

\* C8 as stated: getFilteredFiles returns only records that satisfy every
\* active filter, a non-empty query being an active text filter, and the
\* requested page holds exactly the page of all such records in store order.
C8_AsStated ==
    call # None =>
        /\ \A i \in 1..Len(result[1].files) :
              SatisfiesNonEmpty(result[1].files[i], call[1].filters)
        /\ call[1].pagination.page >= 1 =>
              result[1].files = PageOf(MatchingNonEmpty, call[1].pagination)

\* C8 amended: the same with the text filter active only for a query that is
\* not blank (not empty after trimming): every returned record satisfies
\* every active filter (name or context contains the query ignoring case, the
\* type is one of fileTypes), and the requested page is exactly the page of
\* all satisfying records of the store, in store order.
C8_FilterCorrectness ==
    call # None =>
        /\ \A i \in 1..Len(result[1].files) :
              SatisfiesNonBlank(result[1].files[i], call[1].filters)
        /\ call[1].pagination.page >= 1 =>
              result[1].files = PageOf(MatchingNonBlank, call[1].pagination)

\* a call with a mixed-case query and a type filter returned some records of
\* the store and left others out
C8_Witness ==
    /\ call # None
    /\ call[1].filters.query = Some(<<"K", "A">>)
    /\ call[1].filters.fileTypes = Some(<<"application/gzip">>)
    /\ call[1].pagination.page = 1
    /\ result[1].files # <<>>
    /\ Len(result[1].files) < Len(submittedFiles)

\* the last page that holds a record (0 when nothing matches)
LastNonEmptyPage ==
    (result[1].total + call[1].pagination.limit - 1) \div call[1].pagination.limit

\* C9 as stated: for positive page and limit, a page has at most limit
\* records, and exactly limit records unless it is the last non-empty page.
C9_AsStated ==
    (call # None /\ call[1].pagination.page >= 1) =>
        /\ Len(result[1].files) <= call[1].pagination.limit
        /\ call[1].pagination.page # LastNonEmptyPage =>
              Len(result[1].files) = call[1].pagination.limit

\* C9 amended: for positive page and limit, a page has at most limit records,
\* exactly limit records when it lies before the last non-empty page, and no
\* records when it lies after it.
C9_PageSizeBound ==
    (call # None /\ call[1].pagination.page >= 1) =>
        /\ Len(result[1].files) <= call[1].pagination.limit
        /\ call[1].pagination.page < LastNonEmptyPage =>
              Len(result[1].files) = call[1].pagination.limit
        /\ call[1].pagination.page > LastNonEmptyPage =>
              Len(result[1].files) = 0

\* a full page before the last one was returned
C9_Witness ==
    /\ call # None
    /\ call[1].pagination.page >= 1
    /\ call[1].pagination.page < LastNonEmptyPage
    /\ call[1].pagination.limit > 1
    /\ Len(result[1].files) = call[1].pagination.limit

\* C10: total is the number of records of the store that satisfy the
\* filters, whatever the page;
C10_TotalIsFilteredSize ==
    call # None =>
        /\ result[1].total = Len(MatchingNonBlank)
        /\ (call[1].pagination.page - 1) * call[1].pagination.limit >= result[1].total
              => result[1].files = <<>>

\* and two calls with the same filters on the store return the same total.
C10_SameTotalOnEveryPage ==
    (call # None /\ call' # None /\ call'[1].filters = call[1].filters)
        => result'[1].total = result[1].total

\* C10: total equals the size of the filtered set before pagination, is the
\* same for every page of a query, and a page past the end is empty with
\* that same total.
C10_TotalCount == []C10_TotalIsFilteredSize /\ [][C10_SameTotalOnEveryPage]_vars

\* a page past the end was requested after another page of a query that
\* matches some but not all records
C10_Witness ==
    /\ call # None
    /\ call[1].pagination.page > LastNonEmptyPage
    /\ call[1].pagination.page >= 2
    /\ result[1].total > 0
    /\ result[1].total < Len(submittedFiles)
    /\ result[1].files = <<>>

-----------------------------------------------------------------------------
(* The coordinator used one call at a time: every loadMore is awaited and  *)
(* is called through the loadMore of the current render; the store is not  *)
(* written to by anyone else.                                              *)

\* the store of n submitted files that cycles through SubmittableSeq
CycleStore(n) ==
    [i \in 1..n |->
        LET c == SubmittableSeq[((i - 1) % Len(SubmittableSeq)) + 1]
        IN  FileItem(i, c.name, c.type, c.context, c.lastModified)]

SeqQueries == Queries \cup {<<" ">>}

SeqTypes == {<<>>, <<"application/json">>, <<"text/plain", "application/gzip">>}

\* loadMore called when no fetch is outstanding and the component has
\* rendered since the last state update
SeqLoadMore ==
    /\ fetchCount < MaxSeqFetches
    /\ fetches = {}
    /\ closure = Captured(page, items)
    /\ LoadMoreCall

\* reset called when no fetch is outstanding
SeqReset ==
    /\ fetches = {}
    /\ Reset

InitSeq ==
    /\ submittedFiles \in {CycleStore(n) : n \in 0..MaxSeqLen}
    /\ nextId = Len(submittedFiles) + 1
    /\ items = <<>>
    /\ page = initialPage
    /\ isLoading = FALSE
    /\ hasMore = TRUE
    /\ error = None
    /\ isFetchingRef = FALSE
    /\ fetches = {}
    /\ fetchCount = 0
    /\ timers = 0
    /\ closure = Captured(initialPage, <<>>)
    /\ mounted = FALSE
    /\ searchQuery \in SeqQueries
    /\ selectedFileTypes \in SeqTypes
    /\ call = None
    /\ result = None
    /\ InitApp

NextSeq ==
    \/ SeqLoadMore
    \/ FetchResolves
    \/ FetchRejects
    \/ FetchMalformed
    \/ ReleaseGuard
    \/ Render
    \/ SeqReset

SpecSeq == InitSeq /\ [][NextSeq]_vars

\* the same, with the timers of the finally blocks firing in the end
SpecSeqFair == SpecSeq /\ WF_vars(ReleaseGuard)

-----------------------------------------------------------------------------
(* The variant of the hook in hooks/useInfiniteScroll.ts, used one call at *)
(* a time: hasMore is computed from the page count, page advances on every  *)
(* merged result, and the finally block releases the guard at once.         *)

\* Math.ceil(a / b) for a >= 0, b > 0
Ceil(a, b) == (a + b - 1) \div b

MergeResultTs(f, data, totalCount, pageSize) ==
    LET totalPages == Ceil(totalCount, pageSize)
    IN  /\ items' = IF f.page = initialPage THEN data ELSE items \o data
        /\ hasMore' = (f.page < totalPages)
        /\ page' = page + 1

FinallyTs ==
    /\ isLoading' = FALSE
    /\ isFetchingRef' = FALSE
    /\ UNCHANGED timers

FetchResolvesTs ==
    \E f \in fetches :
      \E files \in SeedIfEmpty(submittedFiles, nextId) :
        LET r == GetFilteredFiles(files, f.filters, Pagination(f.page, PageSize))
        IN  /\ f.outcome = "data"
            /\ submittedFiles' = files
            /\ nextId' = IdsAfterSeed(submittedFiles, nextId)
            /\ MergeResultTs(f, r.files, r.total, PageSize)
            /\ FinallyTs
            /\ fetches' = fetches \ {f}
            /\ UNCHANGED <<error, fetchCount, closure, gridVars, callVars, appVars>>

FetchRejectsTs ==
    \E f \in fetches :
        /\ f.outcome = "reject"
        /\ error' = Some("Error")
        /\ FinallyTs
        /\ fetches' = fetches \ {f}
        /\ UNCHANGED <<items, page, hasMore, fetchCount, closure>>
        /\ UNCHANGED <<submittedFiles, nextId, gridVars, callVars, appVars>>

FetchMalformedTs ==
    \E f \in fetches :
        /\ f.outcome = "malformed"
        /\ FinallyTs
        /\ fetches' = fetches \ {f}
        /\ UNCHANGED <<items, page, hasMore, error, fetchCount, closure>>
        /\ UNCHANGED <<submittedFiles, nextId, gridVars, callVars, appVars>>

NextSeqTs ==
    \/ SeqLoadMore
    \/ FetchResolvesTs
    \/ FetchRejectsTs
    \/ FetchMalformedTs
    \/ Render
    \/ SeqReset

SpecSeqTs == InitSeq /\ [][NextSeqTs]_vars

-----------------------------------------------------------------------------
(* Properties of the coordinator.                                          *)

\* C1: at most one fetchFn call is started and not yet settled (Spec).
C1_AtMostOneFetch == Cardinality(fetches) <= 1

\* C2: while a fetch is outstanding that was started after the last reset(),
\* and stays so over the step (no reset in the step either), no call of
\* loadMore starts another fetch: the call is dropped (Spec).
C2_SecondCallDropped ==
    [][(\E f \in fetches : ~f.stale /\ f \in fetches') => fetchCount' = fetchCount]_vars

\* the records of files that satisfy the grid's filters, in store order
GridMatchingIn(files) ==
    LET T(f) == SatisfiesNonBlank(f, GridFilters(searchQuery, selectedFileTypes))
    IN  SelectSeq(files, T)

\* C3: with awaited calls from the reset state, the step in which hasMore
\* becomes false leaves items equal to the whole filtered sequence of the
\* store, in store order: no record twice, none missing (SpecSeq).
C3_PaginationCompleteness ==
    [][(hasMore /\ ~hasMore') => items' = GridMatchingIn(submittedFiles')]_vars

\* a filtered query of more than one page was loaded to its end
C3_Witness ==
    /\ ~hasMore
    /\ searchQuery # <<>>
    /\ page >= 2
    /\ Len(items) > PageSize
    /\ Len(items) < Len(submittedFiles)
    /\ items = GridMatchingIn(submittedFiles)

\* C4: once hasMore is false, a loadMore that completes leaves items as
\* they were (SpecSeq: the fetch that settles was started with hasMore false).
C4_NoOpWhenExhausted ==
    [][(~hasMore /\ \E f \in fetches : f \notin fetches') => items' = items]_vars

\* the first n pages of the filtered sequence
FirstPages(n) ==
    LET all == GridMatchingIn(submittedFiles)
        last == IF n * PageSize < Len(all) THEN n * PageSize ELSE Len(all)
    IN  SubSeq(all, 1, last)

C5_RejectKeepsState ==
    /\ fetchCount' > fetchCount =>
          /\ UNCHANGED <<items, page, hasMore>>
          /\ \A f \in fetches' \ fetches : f.page = page
    /\ \A f \in fetches : (f.outcome = "reject" /\ f \notin fetches') =>
          /\ error' # None
          /\ UNCHANGED <<items, page, hasMore>>

C5_PagesInOrder ==
    (hasMore /\ fetches = {}) => items = FirstPages(page - initialPage)

\* C5: a loadMore whose fetchFn rejects leaves error set and items, page and
\* hasMore as they were before the call; the next loadMore requests the page
\* of the unchanged cursor, and whenever more is to come the items are
\* exactly the pages before the cursor, whatever failed in between (SpecSeq).
C5_ErrorNonCorruption == [][C5_RejectKeepsState]_vars /\ []C5_PagesInOrder

\* the fetch of page 2 was rejected and page 1 is still there
C5_Witness ==
    /\ error # None
    /\ fetches = {}
    /\ hasMore
    /\ page = 2
    /\ Len(items) = PageSize

C6_ResetPost ==
    /\ items = <<>>
    /\ page = initialPage
    /\ hasMore = TRUE
    /\ error = None
    /\ isFetchingRef = FALSE

\* C6: every reset() leaves items = [], page = initialPage, hasMore = true,
\* error = null and the guard clear, and a reset() in that state changes none
\* of them (Spec).
C6_ResetIdempotent ==
    [][Reset =>
        /\ C6_ResetPost'
        /\ C6_ResetPost => UNCHANGED <<items, page, hasMore, error, isFetchingRef>>]_vars

\* reset() was called while a fetch was outstanding
C6_Witness ==
    /\ C6_ResetPost
    /\ fetches # {}
    /\ \A f \in fetches : f.stale

\* C7: when searchQuery or selectedFileTypes changes, the fetch the effects
\* start requests the initial page (SpecGrid).
C7_QueryChangeFetchesFirstPage ==
    [][(searchQuery' # searchQuery \/ selectedFileTypes' # selectedFileTypes) =>
        \A f \in fetches' : f.id = fetchCount' => f.page = initialPage]_vars

-----------------------------------------------------------------------------
(* fileService: submitFile, deleteFile, analyzeFile, getSubmittedFiles.    *)
(* Each of them first awaits a timer and only then reads or writes the      *)
(* store, without another await: its body is one step, taken when the timer *)
(* fires.                                                                   *)

\* the id that file.id || ... takes for missing: the empty string
NoId == 0

\* submitFile that adds the record at the end of the store
SubmitFileAppend(files, file, uuid) ==
    LET submittedFile == [file EXCEPT !.id = IF file.id # NoId THEN file.id ELSE uuid]
    IN  [store |-> Append(files, submittedFile), value |-> submittedFile]

\* submitFile(file) on the store files; uuid is what crypto.randomUUID()
\* returns if it is called.
SubmitFile(files, file, uuid) ==
    LET submittedFile == [file EXCEPT !.id = IF file.id # NoId THEN file.id ELSE uuid]
    IN  [store |-> <<submittedFile>> \o files, value |-> submittedFile]

\* deleteFile that removes the first record with the id only
DeleteFileFirstOnly(files, fileId) ==
    LET hits == {i \in 1..Len(files) : files[i].id = fileId}
        first == CHOOSE i \in hits : \A j \in hits : i <= j
        kept == IF hits = {} THEN files
                ELSE SubSeq(files, 1, first - 1) \o SubSeq(files, first + 1, Len(files))
    IN  [store |-> kept, value |-> Len(kept) < Len(files)]

\* deleteFile(fileId) on the store files
DeleteFile(files, fileId) ==
    LET initialLength == Len(files)
        T(file) == file.id # fileId
        kept == SelectSeq(files, T)
    IN  [store |-> kept, value |-> Len(kept) < initialLength]

\* Array.prototype.find(f => f.id === fileId): the first hit, <<>> for undefined
Find(files, fileId) ==
    LET hits == {i \in 1..Len(files) : files[i].id = fileId}
    IN  IF hits = {} THEN None
        ELSE Some(files[CHOOSE i \in hits : \A j \in hits : i <= j])

\* analyzeFile that answers for any id
AnalyzeFileAnyId(files, fileId, prompt) ==
    [settled |-> "resolved", value |-> "summary"]

\* analyzeFile(fileId, prompt) on the store files: how its promise settles
AnalyzeFile(files, fileId, prompt) ==
    IF Find(files, fileId) = None
    THEN [settled |-> "rejected", value |-> "File not found"]
    ELSE [settled |-> "resolved", value |-> "summary"]

\* the ids handed out so far, by crypto.randomUUID() in the service or in
\* FileUploader, and the next one
KnownIds == 1..(nextId - 1)

\* The files a caller can submit: a selected file with no id, with a new id
\* of its own, or with the id of a file submitted before.
SubmitArgs ==
    { FileItem(id, c.name, c.type, c.context, c.lastModified) :
        id \in {NoId, nextId} \cup KnownIds, c \in {SubmittableSeq[1], SubmittableSeq[2]} }

\* the ids a caller can ask for: the empty id, the known ones and a new one
IdArgs == {NoId, nextId} \cup KnownIds

\* the prompt of an analysis
Prompts == {<<"p">>}

\* A call submitFile(file).
SubmitFileCall ==
    /\ calls < MaxCalls
    /\ \E file \in SubmitArgs :
        LET r == SubmitFile(submittedFiles, file, nextId)
        IN  /\ submittedFiles' = r.store
            /\ nextId' = IF file.id = NoId \/ file.id = nextId THEN nextId + 1 ELSE nextId
            /\ call' = Some([op |-> "submitFile", file |-> file])
            /\ result' = Some([settled |-> "resolved", value |-> r.value])
    /\ calls' = calls + 1
    /\ UNCHANGED <<hookVars, gridVars, indexVars, uploaderVars>>

\* A call deleteFile(fileId).
DeleteFileCall ==
    /\ calls < MaxCalls
    /\ \E fileId \in IdArgs :
        LET r == DeleteFile(submittedFiles, fileId)
        IN  /\ submittedFiles' = r.store
            /\ call' = Some([op |-> "deleteFile", fileId |-> fileId])
            /\ result' = Some([settled |-> "resolved", value |-> r.value])
    /\ calls' = calls + 1
    /\ UNCHANGED <<nextId, hookVars, gridVars, indexVars, uploaderVars>>

\* A call analyzeFile(fileId, prompt).
AnalyzeFileCall ==
    /\ calls < MaxCalls
    /\ \E fileId \in IdArgs, prompt \in Prompts :
        /\ call' = Some([op |-> "analyzeFile", fileId |-> fileId])
        /\ result' = Some(AnalyzeFile(submittedFiles, fileId, prompt))
    /\ calls' = calls + 1
    /\ UNCHANGED <<submittedFiles, nextId, hookVars, gridVars, indexVars, uploaderVars>>

-----------------------------------------------------------------------------
(* Index: the page that owns the list, the active file and the chat.       *)

\* the elements of a sequence
Range(seq) == {seq[i] : i \in 1..Len(seq)}

\* the records the page can hand to a handler: those of its own list and
\* those the grid shows
Shown == Range(indexSubmittedFiles) \cup Range(items)

\* getSubmittedFiles(): seeds the store when it is empty, returns the store.
GetSubmittedFiles ==
    \E files \in SeedIfEmpty(submittedFiles, nextId) :
        /\ submittedFiles' = files
        /\ nextId' = IdsAfterSeed(submittedFiles, nextId)
        /\ indexSubmittedFiles' = files

\* the mount effect: fetchFiles()
IndexMount ==
    /\ ~indexMounted
    /\ indexMounted' = TRUE
    /\ GetSubmittedFiles
    /\ UNCHANGED <<activeFile, isAnalyzing, diagnosticResults, chatMessages, toasts,
                   deletes, analyses>>
    /\ UNCHANGED <<calls, hookVars, gridVars, callVars, uploaderVars>>

\* handleRefreshFiles
HandleRefreshFiles ==
    /\ indexMounted
    /\ calls < MaxHandlerCalls
    /\ calls' = calls + 1
    /\ toasts' = Append(toasts, "Refreshing files")
    /\ GetSubmittedFiles
    /\ UNCHANGED <<indexMounted, activeFile, isAnalyzing, diagnosticResults, chatMessages,
                   deletes, analyses>>
    /\ UNCHANGED <<hookVars, gridVars, callVars, uploaderVars>>

\* onFileSelect={setActiveFile}: a file of the grid is clicked
SetActiveFile ==
    /\ calls < MaxHandlerCalls
    /\ calls' = calls + 1
    /\ \E file \in Shown :
        /\ activeFile # Some(file)
        /\ activeFile' = Some(file)
    /\ UNCHANGED <<indexMounted, indexSubmittedFiles, isAnalyzing, diagnosticResults,
                   chatMessages, toasts, deletes, analyses>>
    /\ UNCHANGED <<submittedFiles, nextId, hookVars, gridVars, callVars, uploaderVars>>

\* handleDeleteFile(fileToDelete) up to its await: deleteFile is called with
\* fileToDelete.id || ''; the handler keeps the activeFile of its render.
HandleDeleteFileStart ==
    /\ calls < MaxHandlerCalls
    /\ \E fileToDelete \in Shown :
          deletes' = deletes \cup {[n |-> calls + 1, file |-> fileToDelete,
                                    activeFile |-> activeFile]}
    /\ calls' = calls + 1
    /\ UNCHANGED <<indexMounted, indexSubmittedFiles, activeFile, isAnalyzing,
                   diagnosticResults, chatMessages, toasts, analyses>>
    /\ UNCHANGED <<submittedFiles, nextId, hookVars, gridVars, callVars, uploaderVars>>

\* handleDeleteFile after its await, deleteFile resolved with success
HandleDeleteFileAfter(d, success) ==
    /\ indexSubmittedFiles' =
          IF success
          THEN LET T(file) == file.id # d.file.id IN SelectSeq(indexSubmittedFiles, T)
          ELSE indexSubmittedFiles
    /\ activeFile' =
          IF success /\ d.activeFile # None /\ d.activeFile[1].id = d.file.id
          THEN None ELSE activeFile
    /\ toasts' = IF success THEN Append(toasts, "File deleted") ELSE toasts

\* The deleteFile of a handleDeleteFile call runs and the handler goes on.
\* deleteFile has no throw, so the handler's catch block is never entered.
HandleDeleteFileSettles ==
    \E d \in deletes :
        LET r == DeleteFile(submittedFiles, d.file.id)
        IN  /\ submittedFiles' = r.store
            /\ HandleDeleteFileAfter(d, r.value)
            /\ deletes' = deletes \ {d}
            /\ call' = Some([op |-> "deleteFile", fileId |-> d.file.id])
            /\ result' = Some([settled |-> "resolved", value |-> r.value])
            /\ UNCHANGED <<indexMounted, isAnalyzing, diagnosticResults, chatMessages,
                           analyses>>
            /\ UNCHANGED <<nextId, calls, hookVars, gridVars, uploaderVars>>

\* a chat message: who sent it and what it says
ChatMessage(sender, content) == [sender |-> sender, content |-> content]

\* handleSendMessage after analyzeFile (or the branch without a file) gave
\* its result: the try block's tail, or the catch block, then finally.
HandleSendMessageAfter(r) ==
    /\ diagnosticResults' =
          IF r.settled = "resolved" THEN Some(r.value) ELSE diagnosticResults
    /\ toasts' = Append(toasts, IF r.settled = "resolved" THEN "Analysis complete"
                                 ELSE "Analysis failed")
    /\ isAnalyzing' = FALSE

\* handleSendMessage(message, file); ChatInput is disabled while isAnalyzing.
\* With a file (the one passed or the active one) analyzeFile is awaited,
\* without one the handler runs to its end at once.
HandleSendMessage ==
    /\ calls < MaxHandlerCalls
    /\ ~isAnalyzing
    /\ calls' = calls + 1
    /\ \E file \in {None} \cup {Some(f) : f \in Shown}, message \in Prompts :
        LET userFile == IF file # None THEN file ELSE activeFile
        IN  /\ activeFile' = IF file # None /\ activeFile = None THEN file ELSE activeFile
            /\ IF userFile # None
               THEN /\ chatMessages' = Append(chatMessages, ChatMessage("user", "message"))
                    /\ isAnalyzing' = TRUE
                    /\ analyses' = analyses \cup {[n |-> calls + 1, fileId |-> userFile[1].id,
                                                  prompt |-> message]}
                    /\ UNCHANGED <<diagnosticResults, toasts>>
               ELSE /\ chatMessages' = chatMessages \o <<ChatMessage("user", "message"),
                                                         ChatMessage("assistant", "found")>>
                    /\ HandleSendMessageAfter([settled |-> "resolved", value |-> "no file"])
                    /\ UNCHANGED analyses
    /\ UNCHANGED <<indexMounted, indexSubmittedFiles, deletes>>
    /\ UNCHANGED <<submittedFiles, nextId, hookVars, gridVars, callVars, uploaderVars>>

\* The analyzeFile of a handleSendMessage call settles and the handler goes on.
AnalysisSettles ==
    \E a \in analyses :
        LET r == AnalyzeFile(submittedFiles, a.fileId, a.prompt)
        IN  /\ HandleSendMessageAfter(r)
            /\ chatMessages' = Append(chatMessages,
                  ChatMessage("assistant", IF r.settled = "resolved" THEN "found" ELSE "error"))
            /\ analyses' = analyses \ {a}
            /\ call' = Some([op |-> "analyzeFile", fileId |-> a.fileId])
            /\ result' = Some(r)
            /\ UNCHANGED <<indexMounted, indexSubmittedFiles, activeFile, deletes>>
            /\ UNCHANGED <<submittedFiles, nextId, calls, hookVars, gridVars, uploaderVars>>

NextService ==
    \/ SubmitFileCall
    \/ DeleteFileCall
    \/ AnalyzeFileCall

SpecService == Init /\ [][NextService]_vars

NextIndex ==
    \/ IndexMount
    \/ HandleRefreshFiles
    \/ SetActiveFile
    \/ HandleDeleteFileStart
    \/ HandleDeleteFileSettles
    \/ HandleSendMessage
    \/ AnalysisSettles

SpecIndex == Init /\ [][NextIndex]_vars

-----------------------------------------------------------------------------
(* Properties of submitFile, deleteFile and analyzeFile (SpecService) and   *)
(* of Index.handleDeleteFile (SpecIndex).                                   *)

\* the step is a direct call of the service operation op
ServiceStep(op) == calls' = calls + 1 /\ call'[1].op = op

\* the ids of the records of a store
IdsOf(files) == {files[i].id : i \in 1..Len(files)}

C11_SubmitStep ==
    ServiceStep("submitFile") =>
        LET file == call'[1].file
            stored == result'[1].value
        IN  /\ result'[1].settled = "resolved"
            /\ stored.id # NoId
            /\ file.id # NoId => stored.id = file.id
            /\ stored = [file EXCEPT !.id = stored.id]
            /\ Len(submittedFiles') = Len(submittedFiles) + 1
            /\ submittedFiles'[1] = stored
            /\ \A i \in 1..Len(submittedFiles) : submittedFiles'[i + 1] = submittedFiles[i]

\* C11: submitFile gives the record an id when it has none and keeps an id it
\* has, puts the record in front of all earlier records of the store, which
\* keep their order, and returns the stored copy (SpecService).
C11_SubmitPrepends == [][C11_SubmitStep]_vars

\* a record without an id was submitted to a store that held two records
C11_Witness ==
    /\ call # None
    /\ call[1].op = "submitFile"
    /\ call[1].file.id = NoId
    /\ Len(submittedFiles) = 3
    /\ submittedFiles[1] = result[1].value
    /\ submittedFiles[1].id \notin {NoId, submittedFiles[2].id, submittedFiles[3].id}

C12_DeleteStep ==
    ServiceStep("deleteFile") =>
        LET fileId == call'[1].fileId
            Other(file) == file.id # fileId
        IN  /\ result'[1].settled = "resolved"
            /\ result'[1].value = (fileId \in IdsOf(submittedFiles))
            /\ fileId \notin IdsOf(submittedFiles')
            /\ submittedFiles' = SelectSeq(submittedFiles, Other)

\* C12: deleteFile(id) returns true exactly when the store held a record with
\* that id before the call; afterwards no record of the store has that id and
\* all other records are there unchanged, in the same order (SpecService).
C12_DeleteRemoves == [][C12_DeleteStep]_vars

\* a record was deleted from between two others
C12_Witness ==
    /\ call # None
    /\ call[1].op = "deleteFile"
    /\ result[1].value = TRUE
    /\ Len(submittedFiles) = 2
    /\ submittedFiles[1].id > call[1].fileId
    /\ submittedFiles[2].id < call[1].fileId

C13_AnalyzeStep ==
    ServiceStep("analyzeFile") =>
        /\ result'[1].settled \in {"resolved", "rejected"}
        /\ (result'[1].settled = "rejected") = (call'[1].fileId \notin IdsOf(submittedFiles))
        /\ submittedFiles' = submittedFiles

\* C13: analyzeFile(id, prompt) rejects when no record of the store has that
\* id, resolves with a result otherwise, and never changes the store
\* (SpecService).
C13_AnalyzeRejectsUnknown == [][C13_AnalyzeStep]_vars

\* the analysis of a deleted record was rejected, the store holding others
C13_Witness ==
    /\ call # None
    /\ call[1].op = "analyzeFile"
    /\ result[1].settled = "rejected"
    /\ call[1].fileId \in KnownIds
    /\ submittedFiles # <<>>

\* C14: when the deleteFile of a handleDeleteFile call finds no record with
\* the id, it is rejected, and the handler shows a toast and leaves the
\* page's list and its active file as they were (SpecIndex).
C14_DeleteUnknownNotified ==
    [][\A d \in deletes :
          (d \notin deletes' /\ d.file.id \notin IdsOf(submittedFiles)) =>
              /\ result'[1].settled = "rejected"
              /\ Len(toasts') = Len(toasts) + 1
              /\ indexSubmittedFiles' = indexSubmittedFiles
              /\ activeFile' = activeFile]_vars

-----------------------------------------------------------------------------
(* FileUploader: selecting, describing and submitting one file.            *)
(* A MIME type or pattern is the sequence of its parts, "image/png" being  *)
(* <<"image", "/", "png">> and "" being <<>>.                              *)

\* String.prototype.endsWith / startsWith
EndsWith(str, suffix) ==
    Len(suffix) <= Len(str) /\ SubSeq(str, Len(str) - Len(suffix) + 1, Len(str)) = suffix

StartsWith(str, prefix) ==
    Len(prefix) <= Len(str) /\ SubSeq(str, 1, Len(prefix)) = prefix

\* str.replace(pattern, replacement): the first occurrence only
ReplaceFirst(str, pattern, replacement) ==
    LET hits == {i \in 0..(Len(str) - Len(pattern)) :
                    SubSeq(str, i + 1, i + Len(pattern)) = pattern}
        at == CHOOSE i \in hits : \A j \in hits : i <= j
    IN  IF hits = {} THEN str
        ELSE SubSeq(str, 1, at) \o replacement \o SubSeq(str, at + Len(pattern) + 1, Len(str))

\* the test of one accepted type in handleFileChange
TypeAccepts(type, fileType) ==
    \/ fileType = type
    \/ /\ EndsWith(type, <<"/", "*">>)
       /\ StartsWith(fileType, ReplaceFirst(type, <<"/", "*">>, <<"/">>))

\* Validate without the size check
ValidateNoSizeCheck(file, props) ==
    IF /\ (Len(props.acceptedFileTypes) = 0 \/ props.acceptedFileTypes[1] # <<"*", "/", "*">>)
       /\ ~\E i \in 1..Len(props.acceptedFileTypes) :
              TypeAccepts(props.acceptedFileTypes[i], file.type)
    THEN "Invalid file type"
    ELSE "ok"

\* The two checks of handleFileChange: the title of the toast of the first
\* one that fails, "ok" when the file passes.
Validate(file, props) ==
    IF file.size > props.maxSizeMB * 1024 * 1024 THEN "File too large"
    ELSE IF /\ (Len(props.acceptedFileTypes) = 0
                  \/ props.acceptedFileTypes[1] # <<"*", "/", "*">>)
            /\ ~\E i \in 1..Len(props.acceptedFileTypes) :
                   TypeAccepts(props.acceptedFileTypes[i], file.type)
         THEN "Invalid file type"
         ELSE "ok"

\* newFile of handleFileChange
NewFile(id, file) ==
    [id |-> id, name |-> file.name, size |-> file.size, type |-> file.type,
     context |-> <<>>, lastModified |-> file.lastModified, status |-> "unspecified"]

\* the props a parent gives: maxSizeMB (its default and what ChatInput
\* passes), acceptedFileTypes, isDemo
UploaderProps ==
    { [maxSizeMB |-> m, acceptedFileTypes |-> a, isDemo |-> d] :
        m \in {10, 20},
        a \in { << <<"*", "/", "*">> >>,
                << <<"image", "/", "*">> >>,
                << <<"text", "/", "plain">>, <<"image", "/", "*">> >>,
                << <<"image", "/", "png">>, <<"*", "/", "*">> >> },
        d \in BOOLEAN }

\* the files a user can pick or drop
MimeTypes == {<<>>, <<"image", "/", "png">>, <<"text", "/", "plain">>}

FileSizes == {1, uploaderProps.maxSizeMB * 1024 * 1024,
              uploaderProps.maxSizeMB * 1024 * 1024 + 1}

PickableFiles ==
    { [name |-> <<"f">>, size |-> sz, type |-> t, lastModified |-> 1] :
        sz \in FileSizes, t \in MimeTypes }

\* the texts typed into the context field
ContextTexts == {<<>>, <<"c">>}

\* handleFileChange for the first file of the list
FileChange(file) ==
    LET verdict == Validate(file, uploaderProps)
    IN  /\ picked' = Append(picked, file)
        /\ IF verdict = "ok"
           THEN /\ selectedFile' = Some(NewFile(nextId, file))
                /\ uploaderContext' = <<>>
                /\ nextId' = nextId + 1
                /\ UNCHANGED toasts
           ELSE /\ toasts' = Append(toasts, verdict)
                /\ UNCHANGED <<selectedFile, uploaderContext, nextId>>
        /\ calls' = calls + 1
        /\ UNCHANGED <<onFileSelectCalls, onSubmitCalls, uploaderProps>>
        /\ UNCHANGED <<indexMounted, indexSubmittedFiles, activeFile, isAnalyzing,
                       diagnosticResults, chatMessages, deletes, analyses>>
        /\ UNCHANGED <<submittedFiles, hookVars, gridVars, callVars>>

\* a file is chosen in the file dialog
HandleFileChange ==
    /\ calls < MaxUploaderEvents
    /\ \E file \in PickableFiles : file.type # <<>> /\ FileChange(file)

\* a file is dropped on the drop zone: handleDrop passes it to
\* handleFileChange (files of unknown type come this way too)
HandleDrop ==
    /\ calls < MaxUploaderEvents
    /\ \E file \in PickableFiles : file.type # <<"text", "/", "plain">> /\ FileChange(file)

\* handleContextChange
HandleContextChange ==
    /\ calls < MaxUploaderEvents
    /\ calls' = calls + 1
    /\ \E newContext \in ContextTexts \ {uploaderContext} :
        /\ uploaderContext' = newContext
        /\ IF selectedFile # None
           THEN LET updatedFile == [selectedFile[1] EXCEPT !.context = newContext]
                IN  /\ selectedFile' = Some(updatedFile)
                    /\ onFileSelectCalls' = Append(onFileSelectCalls, Some(updatedFile))
           ELSE UNCHANGED <<selectedFile, onFileSelectCalls>>
    /\ UNCHANGED <<picked, onSubmitCalls, uploaderProps>>
    /\ UNCHANGED <<submittedFiles, nextId, hookVars, gridVars, callVars, indexVars>>

\* the remove button of the selected file
RemoveSelectedFile ==
    /\ calls < MaxUploaderEvents
    /\ calls' = calls + 1
    /\ selectedFile # None
    /\ selectedFile' = None
    /\ uploaderContext' = <<>>
    /\ onFileSelectCalls' = Append(onFileSelectCalls, None)
    /\ UNCHANGED <<picked, onSubmitCalls, uploaderProps>>
    /\ UNCHANGED <<submittedFiles, nextId, hookVars, gridVars, callVars, indexVars>>

\* handleSubmitFile
HandleSubmitFile ==
    /\ calls < MaxUploaderEvents
    /\ calls' = calls + 1
    /\ selectedFile # None
    /\ IF uploaderProps.isDemo
       THEN /\ toasts' = Append(toasts, "File submitted")
            /\ UNCHANGED onSubmitCalls
       ELSE /\ onSubmitCalls' = Append(onSubmitCalls, selectedFile)
            /\ UNCHANGED toasts
    /\ UNCHANGED <<selectedFile, uploaderContext, picked, onFileSelectCalls, uploaderProps>>
    /\ UNCHANGED <<indexMounted, indexSubmittedFiles, activeFile, isAnalyzing,
                   diagnosticResults, chatMessages, deletes, analyses>>
    /\ UNCHANGED <<submittedFiles, nextId, hookVars, gridVars, callVars>>

InitUploader ==
    /\ submittedFiles = <<>>
    /\ nextId = 1
    /\ items = <<>>
    /\ page = initialPage
    /\ isLoading = FALSE
    /\ hasMore = TRUE
    /\ error = None
    /\ isFetchingRef = FALSE
    /\ fetches = {}
    /\ fetchCount = 0
    /\ timers = 0
    /\ closure = Captured(initialPage, <<>>)
    /\ mounted = FALSE
    /\ searchQuery = <<>>
    /\ selectedFileTypes = <<>>
    /\ call = None
    /\ result = None
    /\ calls = 0
    /\ indexMounted = FALSE
    /\ indexSubmittedFiles = <<>>
    /\ activeFile = None
    /\ isAnalyzing = FALSE
    /\ diagnosticResults = None
    /\ chatMessages = <<>>
    /\ toasts = <<>>
    /\ deletes = {}
    /\ analyses = {}
    /\ selectedFile = None
    /\ uploaderContext = <<>>
    /\ picked = <<>>
    /\ onFileSelectCalls = <<>>
    /\ onSubmitCalls = <<>>
    /\ uploaderProps \in UploaderProps
    /\ committed = [hasMore |-> TRUE, isLoading |-> FALSE]
    /\ loaderRef = FALSE
    /\ observing = FALSE
    /\ listener = None
    /\ debounce = 0
    /\ submits = {}

NextUploader ==
    \/ HandleFileChange
    \/ HandleDrop
    \/ HandleContextChange
    \/ RemoveSelectedFile
    \/ HandleSubmitFile

SpecUploader == InitUploader /\ [][NextUploader]_vars

\* a pattern of an accept list matches a MIME type: the same type, any type,
\* or any type of the same family
PatternMatches(pattern, mime) ==
    \/ pattern = mime
    \/ pattern = <<"*", "/", "*">>
    \/ /\ Len(pattern) = 3 /\ pattern[2] = "/" /\ pattern[3] = "*"
       /\ Len(mime) = 3 /\ mime[2] = "/" /\ mime[1] = pattern[1]

\* the file is larger than maxSizeMB megabytes or matches no accepted type
MustBeRejected(file) ==
    \/ file.size > uploaderProps.maxSizeMB * 1048576
    \/ \A i \in 1..Len(uploaderProps.acceptedFileTypes) :
          ~PatternMatches(uploaderProps.acceptedFileTypes[i], file.type)

C15_RejectedAtSelection ==
    (Len(picked') = Len(picked) + 1 /\ MustBeRejected(picked'[Len(picked')])) =>
        /\ Len(toasts') = Len(toasts) + 1
        /\ UNCHANGED <<selectedFile, uploaderContext, onFileSelectCalls, onSubmitCalls>>

C15_NeverInPipeline ==
    /\ selectedFile # None => ~MustBeRejected(selectedFile[1])
    /\ \A i \in 1..Len(onFileSelectCalls) :
          onFileSelectCalls[i] # None => ~MustBeRejected(onFileSelectCalls[i][1])
    /\ \A i \in 1..Len(onSubmitCalls) : ~MustBeRejected(onSubmitCalls[i][1])

-----------------------------------------------------------------------------
(* Properties of the coordinator's flags.                                  *)

\* the fetchFn call f settles in the step
Settles(f) == f \in fetches /\ \A g \in fetches' : g.id # f.id

\* C16: when the fetchFn of a loadMore call settles, however it does,
\* isLoading is false and the guard is clear after the step, so that a
\* loadMore call made then starts a fetch (SpecSeq).
C16_GuardClearOnCompletion ==
    [][\A f \in fetches : Settles(f) => (isLoading' = FALSE /\ isFetchingRef' = FALSE)]_vars

\* C17: isLoading is true in exactly the states in which a fetchFn call is
\* outstanding (Spec).
C17_LoadingIffOutstanding == isLoading = (fetches # {})

\* the records of the store that satisfy the filters of the fetch f
MatchingOf(f, files) ==
    LET T(file) == SatisfiesNonBlank(file, f.filters) IN SelectSeq(files, T)

\* C18: after a loadMore whose fetchFn resolved with a page, hasMore is false
\* exactly when the accumulated items have reached the totalCount the fetch
\* reported, and true when there are fewer (SpecGrid).
C18_HasMoreIffBelowTotal ==
    [][\A f \in fetches :
          (Settles(f) /\ f.outcome = "data") =>
              hasMore' = (Len(items') < Len(MatchingOf(f, submittedFiles')))]_vars

C19_StaleStep ==
    \A f \in fetches :
        (f.stale /\ Settles(f) /\ f.outcome = "data") =>
            LET all == MatchingOf(f, submittedFiles')
                data == PageOf(all, Pagination(f.page, PageSize))
                counted == (IF f.page = initialPage THEN 0 ELSE f.len) + Len(data)
            IN  /\ items' = IF f.page = initialPage THEN data ELSE items \o data
                /\ hasMore' = (counted < Len(all))
                /\ page' = IF counted < Len(all) THEN page + 1 ELSE page

\* C19: a fetch started before a reset() and settling after it is not
\* discarded: its page is merged into the items as they are after the reset,
\* and its hasMore and page updates are applied (SpecGrid).
C19_StaleFetchMerged == [][C19_StaleStep]_vars

\* after a query change and with nothing outstanding, the grid holds a
\* record that the current query does not match
C19_Witness ==
    /\ fetches = {}
    /\ searchQuery # <<>>
    /\ \E i \in 1..Len(items) :
          ~SatisfiesNonBlank(items[i], GridFilters(searchQuery, selectedFileTypes))

C20_MalformedStep ==
    \A f \in fetches :
        (Settles(f) /\ f.outcome = "malformed") =>
            /\ UNCHANGED <<items, page, hasMore>>
            /\ error' = None
            /\ isLoading' = FALSE
            /\ timers' = timers + 1

\* C20: when fetchFn resolves with a value whose data is no array, loadMore
\* leaves items, page and hasMore as they were, records no error (nothing is
\* thrown), clears isLoading and starts the timer that releases the guard;
\* and whenever such a timer is pending the guard gets cleared (SpecSeqFair).
C20_MalformedIsNoOp ==
    [][C20_MalformedStep]_vars /\ [](timers > 0 => <>(~isFetchingRef))

\* page 2 resolved with malformed data: page 1 is still there, the cursor
\* has not moved, and the guard has been released
C20_Witness ==
    /\ fetches = {}
    /\ fetchCount = 2
    /\ error = None
    /\ page = 2
    /\ Len(items) = PageSize
    /\ hasMore
    /\ ~isLoading
    /\ ~isFetchingRef
    /\ timers = 0

-----------------------------------------------------------------------------
(* The sentinel of the infinite scroll: the observer effect of              *)
(* useInfiniteScroll, its debounce timers, and FileGrid's 'loadmore'        *)
(* listener (SpecScroll).                                                   *)

\* how many debounce timers are followed at once
MaxDebounce == 2

\* how many fetches the scrolling grid starts
MaxScrollFetches == 3

\* What a render of FileGrid shows and hands to its effects.
Rendered(more, loading) == [hasMore |-> more, isLoading |-> loading]

\* What the handleLoadMore of a listener effect closed over: isLoading, the
\* loadMore of that render, searchQuery and selectedFileTypes.
Handler(loading, cl, q, types) == [isLoading |-> loading, cl |-> cl, q |-> q, types |-> types]

\* JSX that keeps the sentinel in the document whatever hasMore is
SentinelAlways(more) == TRUE

\* The JSX of the sentinel, {hasMore && <div ref={loaderRef} .../>}: after a
\* commit loaderRef.current is an element exactly when the render saw
\* hasMore true.
Sentinel(more) == more

\* The observer effect, deps [hasMore, threshold, loadMoreDelay], after a
\* commit that rendered hasMore as more: when hasMore did not change, the
\* observer of the last run stays; otherwise the cleanup runs and the effect
\* observes the sentinel if there is one and hasMore is true.
ObserverEffect(more) ==
    IF more = committed.hasMore
    THEN observing
    ELSE Sentinel(more) /\ more

\* The listener effect, deps [loadMore, loaderRef, searchQuery,
\* selectedFileTypes, isLoading, hasMore]: the cleanup removes the handler of
\* the last run, and a new handler is attached if there is a sentinel and
\* hasMore is true.
ListenerEffect(more, loading, cl, q, types) ==
    IF Sentinel(more) /\ more
    THEN Some(Handler(loading, cl, q, types))
    ELSE None

\* FileGrid mounts with its sentinel: the first render has hasMore true, so
\* the sentinel is in the document; then the effects run in the order of
\* their declaration: the observer effect, the reset effect, the load
\* effect, the listener effect.
MountGrid ==
    /\ ~mounted
    /\ mounted' = TRUE
    /\ GridEffects(searchQuery, selectedFileTypes)
    /\ committed' = Rendered(hasMore, isLoading)
    /\ loaderRef' = Sentinel(hasMore)
    /\ observing' = (Sentinel(hasMore) /\ hasMore)
    /\ listener' = ListenerEffect(hasMore, isLoading, Captured(page, items),
                                  searchQuery, selectedFileTypes)
    /\ UNCHANGED <<searchQuery, selectedFileTypes, debounce, submits>>

\* The parent passes another searchQuery to the grid with its sentinel: the
\* render with the new prop is committed, then the effects run: the observer
\* effect if hasMore changed, the reset effect, the load effect, and the
\* listener effect with what this render captured.
QueryChangeGrid ==
    \E q \in Queries \ {searchQuery} :
        /\ mounted
        /\ searchQuery' = q
        /\ GridEffects(q, selectedFileTypes)
        /\ committed' = Rendered(hasMore, isLoading)
        /\ loaderRef' = Sentinel(hasMore)
        /\ observing' = ObserverEffect(hasMore)
        /\ listener' = ListenerEffect(hasMore, isLoading, Captured(page, items),
                                      q, selectedFileTypes)
        /\ UNCHANGED <<mounted, selectedFileTypes, debounce, submits>>

\* React commits a render of FileGrid with the state as it is now: a new
\* loadMore captures page and items.length, the sentinel is mounted or
\* unmounted, and the effects whose dependencies changed run again.
Commit ==
    /\ mounted
    /\ <<closure, committed>> # <<Captured(page, items), Rendered(hasMore, isLoading)>>
    /\ closure' = Captured(page, items)
    /\ committed' = Rendered(hasMore, isLoading)
    /\ loaderRef' = Sentinel(hasMore)
    /\ observing' = ObserverEffect(hasMore)
    /\ listener' = ListenerEffect(hasMore, isLoading, Captured(page, items),
                                  searchQuery, selectedFileTypes)
    /\ UNCHANGED <<items, page, isLoading, hasMore, error, isFetchingRef, fetches,
                   fetchCount, timers, debounce, submits>>
    /\ UNCHANGED <<submittedFiles, nextId, mounted, searchQuery, selectedFileTypes,
                   callVars, appVars>>

\* The IntersectionObserver callback with entry.isIntersecting true: when
\* the guard is clear it starts a timer that will dispatch 'loadmore' after
\* loadMoreDelay; the timers that are pending are not cancelled.
SentinelVisible ==
    /\ observing
    /\ debounce < MaxDebounce
    /\ ~isFetchingRef
    /\ debounce' = debounce + 1
    /\ UNCHANGED <<committed, loaderRef, observing, listener, submits>>
    /\ UNCHANGED <<items, page, isLoading, hasMore, error, isFetchingRef, fetches,
                   fetchCount, timers, closure>>
    /\ UNCHANGED <<submittedFiles, nextId, mounted, searchQuery, selectedFileTypes,
                   callVars, appVars>>

\* A debounce timer fires: loaderRef.current?.dispatchEvent('loadmore').
\* Without a sentinel nothing is dispatched.  With one, the handler attached
\* to it runs: it returns when its render saw isLoading, and otherwise calls
\* loadMore(fetchFiles) through the loadMore it captured; fetchFiles wraps
\* getFilteredFiles, which answers or fails.
DebounceFires ==
    /\ debounce > 0
    /\ fetchCount < MaxScrollFetches
    /\ debounce' = debounce - 1
    /\ IF loaderRef /\ listener # None /\ ~listener[1].isLoading
       THEN \E outcome \in {"data", "reject"} :
               LoadMoreStart(listener[1].cl,
                             GridFilters(listener[1].q, listener[1].types), TRUE, outcome)
       ELSE UNCHANGED <<isFetchingRef, isLoading, error, fetches, fetchCount>>
    /\ UNCHANGED <<committed, loaderRef, observing, listener, submits>>
    /\ UNCHANGED <<items, page, hasMore, timers, closure>>
    /\ UNCHANGED <<submittedFiles, nextId, mounted, searchQuery, selectedFileTypes,
                   callVars, appVars>>

\* The getFilteredFiles call inside FileGrid's fetch function fails: the
\* catch block of the wrapper returns { data: [], totalCount: 0 }, and
\* loadMore merges that as a page.
StoreQueryFails ==
    \E f \in fetches :
        /\ f.wrapped
        /\ f.outcome = "reject"
        /\ MergeResult(f, <<>>, 0)
        /\ Finally
        /\ fetches' = fetches \ {f}
        /\ UNCHANGED <<error, fetchCount, closure>>
        /\ UNCHANGED <<submittedFiles, nextId, gridVars, callVars, appVars>>

NextScroll ==
    \/ MountGrid
    \/ QueryChangeGrid
    \/ Commit
    \/ SentinelVisible
    \/ DebounceFires
    \/ FetchResolves
    \/ StoreQueryFails
    \/ ReleaseGuard

SpecScroll == Init /\ [][NextScroll]_vars

\* C21: when the getFilteredFiles call behind FileGrid's fetch function
\* fails, the coordinator sees a failed fetch: error is set, items are as
\* before and hasMore keeps its value (SpecScroll).
C21_StoreFailureIsFailedFetch ==
    [][\A f \in fetches :
          (Settles(f) /\ f.wrapped /\ f.outcome = "reject") =>
              (error' # None /\ items' = items /\ hasMore' = hasMore)]_vars

-----------------------------------------------------------------------------
(* Seeding of the store: queries, deletes and analyses called directly      *)
(* (SpecSeed).                                                              *)

\* A call getSubmittedFiles(): the seeding branch, then the store is
\* returned.  Queries are not counted in calls: without a delete in between
\* a second query changes nothing.
GetSubmittedFilesCall ==
    \E files \in SeedIfEmpty(submittedFiles, nextId) :
        /\ submittedFiles' = files
        /\ nextId' = IdsAfterSeed(submittedFiles, nextId)
        /\ call' = Some([op |-> "getSubmittedFiles"])
        /\ result' = Some([settled |-> "resolved", value |-> files])
        /\ UNCHANGED <<hookVars, gridVars, appVars>>

\* A call getFilteredFiles({}, { page: 1, limit }) with no filters.
UnfilteredQuery ==
    /\ calls <= MaxCalls
    /\ GetFilteredFilesCall(Filters(None, None, None), Pagination(1, PageSize))

NextSeed ==
    \/ GetSubmittedFilesCall
    \/ UnfilteredQuery
    \/ DeleteFileCall
    \/ AnalyzeFileCall

SpecSeed == Init /\ [][NextSeed]_vars

\* C22: generated records are put into the store by the first query only:
\* the store gets records only in a step that starts with the store empty
\* and with no generated id handed out yet, so deleteFile and analyzeFile
\* never seed and no later query seeds again, also after deletes have
\* emptied the store (SpecSeed, where ids are handed out by
\* generateMockFiles only: nextId = 1 says that it has not run).
C22_SeedsAtMostOnce ==
    [][Len(submittedFiles') > Len(submittedFiles) =>
          (Len(submittedFiles) = 0 /\ nextId = 1)]_vars

\* the step dispatches 'loadmore' on the sentinel
Dispatches == debounce' = debounce - 1 /\ loaderRef

C24_Coalesced == debounce <= 1

-----------------------------------------------------------------------------
(* Index.handleFileSubmit and the status of the entries of the page's list  *)
(* (SpecSubmit).                                                            *)

\* The files ChatInput hands to handleFileSubmit: the selectedFile of the
\* uploader, created with a new id and status unspecified, or one that was
\* handed over before (the submit button pressed again).
SubmitFiles ==
    { WithStatus(FileItem(id, c.name, c.type, c.context, c.lastModified), "unspecified") :
        id \in {nextId} \cup {s.file.id : s \in submits}
                  \cup {f.id : f \in {g \in Range(submittedFiles) : g.status = "unspecified"}},
        c \in {SubmittableSeq[1]} }

\* handleFileSubmit(file) up to its await: the entry is put in front of the
\* page's list with status in_progress, and submitFile(file) is called.
HandleFileSubmit ==
    /\ indexMounted
    /\ calls < MaxHandlerCalls
    /\ \E file \in SubmitFiles :
          /\ indexSubmittedFiles' = <<WithStatus(file, "in_progress")>> \o indexSubmittedFiles
          /\ submits' = submits \cup {[n |-> calls + 1, file |-> file]}
          /\ nextId' = IF file.id = nextId THEN nextId + 1 ELSE nextId
    /\ calls' = calls + 1
    /\ UNCHANGED <<indexMounted, activeFile, isAnalyzing, diagnosticResults, chatMessages,
                   toasts, deletes, analyses>>
    /\ UNCHANGED <<submittedFiles, hookVars, mounted, searchQuery, selectedFileTypes,
                   scrollVars, callVars, uploaderVars>>

\* handleFileSubmit after its await: prev.map(f => f.id === submittedFile.id
\* ? { ...uploadedFile, status: complete } : f), setActiveFile, toast
HandleFileSubmitAfter(s, uploadedFile) ==
    LET done == WithStatus(uploadedFile, "complete")
    IN  /\ indexSubmittedFiles' =
              [i \in 1..Len(indexSubmittedFiles) |->
                  IF indexSubmittedFiles[i].id = s.file.id
                  THEN done ELSE indexSubmittedFiles[i]]
        /\ activeFile' = Some(done)
        /\ toasts' = Append(toasts, "File processed successfully")

\* The submitFile of a handleFileSubmit call runs and the handler goes on.
\* submitFile has no throw, so the handler's catch block is never entered.
HandleFileSubmitSettles ==
    \E s \in submits :
        LET r == SubmitFile(submittedFiles, s.file, nextId)
        IN  /\ submittedFiles' = r.store
            /\ HandleFileSubmitAfter(s, r.value)
            /\ submits' = submits \ {s}
            /\ call' = Some([op |-> "submitFile", file |-> s.file])
            /\ result' = Some([settled |-> "resolved", value |-> r.value])
            /\ UNCHANGED <<indexMounted, isAnalyzing, diagnosticResults, chatMessages,
                           deletes, analyses>>
            /\ UNCHANGED <<nextId, calls, hookVars, mounted, searchQuery,
                           selectedFileTypes, scrollVars, uploaderVars>>

NextSubmit ==
    \/ IndexMount
    \/ HandleRefreshFiles
    \/ HandleFileSubmit
    \/ HandleFileSubmitSettles

SpecSubmit == Init /\ [][NextSubmit]_vars

\* the statuses of the entries of a list that carry the id, first to last
StatusesOf(list, id) ==
    LET T(f) == f.id = id
        same == SelectSeq(list, T)
    IN  [i \in 1..Len(same) |-> same[i].status]

\* the status moves the life cycle of a record has
AllowedMove(from, to) ==
    \/ from = to
    \/ from = "unspecified" /\ to = "in_progress"
    \/ from = "in_progress" /\ to \in {"complete", "failed"}

\* C25: an entry of the page's list changes its status only from
\* unspecified to in_progress and from in_progress to complete or failed.
\* New entries are put in front, so the entries of one id are compared from
\* the last one backwards (SpecSubmit).
C25_StatusMoves ==
    [][\A f \in Range(indexSubmittedFiles) :
          LET old == StatusesOf(indexSubmittedFiles, f.id)
              new == StatusesOf(indexSubmittedFiles', f.id)
          IN  \A k \in 0..(Len(old) - 1) :
                  k < Len(new) => AllowedMove(old[Len(old) - k], new[Len(new) - k])]_vars

-----------------------------------------------------------------------------
(* The page cursor and the store under the accumulated items.               *)

\* C26: whenever no fetch is outstanding and hasMore is true, the cursor is
\* initialPage plus the number of pages the items hold, and the items are
\* those pages in order: the next request is for the page after the last
\* one merged, so that no page is skipped and none is requested twice, for
\* every interleaving of loadMore and reset (Spec).
C26_CursorCountsPages ==
    (fetches = {} /\ hasMore) =>
        /\ Len(items) = (page - initialPage) * PageSize
        /\ items = FirstPages(page - initialPage)

\* One call of submitFile or deleteFile made by someone else between two
\* page fetches of the coordinator: after the first page, with nothing
\* outstanding.
StoreChange ==
    /\ calls = 0
    /\ fetchCount > 0
    /\ fetches = {}
    /\ (SubmitFileCall \/ DeleteFileCall)

\* the coordinator used one call at a time, as in SpecSeq, over a store that
\* is written to once in between
NextStore ==
    \/ SeqLoadMore
    \/ FetchResolves
    \/ ReleaseGuard
    \/ Render
    \/ StoreChange

SpecStore == InitSeq /\ [][NextStore]_vars

\* no two records of the sequence carry the same id
DistinctIds(files) ==
    \A i \in 1..Len(files) : \A j \in 1..Len(files) : files[i].id = files[j].id => i = j

\* C27: when the store was changed by a submitFile or deleteFile call
\* between two page fetches, the items still hold no record twice, and once
\* hasMore has become false they hold every record of the filtered store
\* other than the one just submitted.  Stores that hold an id twice are set
\* aside (SpecStore, where the change is the one call recorded in call).
C27_ConsistentUnderStoreChange ==
    [][(hasMore /\ DistinctIds(submittedFiles') /\ \E f \in fetches : Settles(f)) =>
          /\ DistinctIds(items')
          /\ ~hasMore' =>
                \A r \in Range(GridMatchingIn(submittedFiles')) :
                    \/ r \in Range(items')
                    \/ /\ call # None
                       /\ call[1].op = "submitFile"
                       /\ result[1].value.id = r.id]_vars

-----------------------------------------------------------------------------
(* Index with its FileGrid: deletes made from the grid (SpecPage).          *)

NextPage ==
    \/ IndexMount
    \/ Mount
    \/ FetchResolves
    \/ ReleaseGuard
    \/ Render
    \/ HandleDeleteFileStart
    \/ HandleDeleteFileSettles

SpecPage == Init /\ [][NextPage]_vars

\* the handleDeleteFile call d goes on after its await in the step, with
\* deleteFile resolved to true
DeletedBy(d) == d \in deletes /\ d \notin deletes' /\ result'[1].value = TRUE

\* C28: when handleDeleteFile has deleted a file, the file is not among the
\* items of the grid's coordinator afterwards (SpecPage).
C28_DeletedLeavesGrid ==
    [][\A d \in deletes :
          DeletedBy(d) => \A i \in 1..Len(items') : items'[i].id # d.file.id]_vars

\* C29: the ids of the records in the store are pairwise distinct after
\* any sequence of submitFile and deleteFile calls (SpecService).
C29_StoreIdsDistinct == DistinctIds(submittedFiles)

\* C30: when handleDeleteFile has deleted a file, activeFile does not
\* reference that file afterwards, also when a file was selected while the
\* deleteFile call was pending (SpecIndex).
C30_ActiveFileNotDeleted ==
    [][\A d \in deletes :
          DeletedBy(d) => (activeFile' = None \/ activeFile'[1].id # d.file.id)]_vars

====
